---- MODULE Spec2Model ----
(***************************************************************************)
(* A model of the OpenAPI-to-MCP tool generator of harryytsao/MCP-Server.   *)
(*                                                                         *)
(* src/src/index.ts builds one tool per operation of an OpenAPI document   *)
(* (MyMCP.init, MyMCP.createToolFromEndpoint) and runs, per invocation, the *)
(* handler closure: placeholder substitution, zod validation, request      *)
(* building, fetch, response normalisation, error capture.                 *)
(* src/unnamed/part_000 is the swagger-client variant of the same server.  *)
(*                                                                         *)
(* JavaScript strings are sequences of one-character strings, so that      *)
(* includes/startsWith/replace/encodeURIComponent are computed, not        *)
(* assumed.  Opaque library messages are a single multi-character token.   *)
(***************************************************************************)
EXTENDS Integers, Sequences, FiniteSets, TLC

----------------------------------------------------------------------------
(* Characters and strings                                                  *)

Lower == {"a","b","c","d","e","f","g","h","i","j","k","l","m","n","o","p","q","r","s","t","u","v","w","x","y","z"}

Upper == {"A","B","C","D","E","F","G","H","I","J","K","L","M","N","O","P","Q","R","S","T","U","V","W","X","Y","Z"}

Digit == {"0","1","2","3","4","5","6","7","8","9"}

HexDigit == Digit \cup {"a","b","c","d","e","f","A","B","C","D","E","F"}

\* String.prototype.includes
Includes(s, sub) ==
  \E i \in 1..(Len(s) - Len(sub) + 1) : SubSeq(s, i, i + Len(sub) - 1) = sub

\* String.prototype.startsWith
StartsWith(s, pre) ==
  Len(s) >= Len(pre) /\ SubSeq(s, 1, Len(pre)) = pre

\* String.prototype.indexOf, 1-based, 0 when absent
IndexOf(s, sub) ==
  IF Includes(s, sub)
  THEN CHOOSE i \in 1..(Len(s) - Len(sub) + 1) :
         /\ SubSeq(s, i, i + Len(sub) - 1) = sub
         /\ \A j \in 1..(i - 1) : SubSeq(s, j, j + Len(sub) - 1) # sub
  ELSE 0

\* String.prototype.replace(pattern: string, replacement: string): the FIRST
\* occurrence only.  The replacements used by the code are outputs of
\* encodeURIComponent, which never hold "$", so no $-pattern is expanded.
ReplaceFirst(s, sub, rep) ==
  LET i == IndexOf(s, sub) IN
  IF i = 0 THEN s
  ELSE SubSeq(s, 1, i - 1) \o rep \o SubSeq(s, i + Len(sub), Len(s))

\* The characters encodeURIComponent leaves alone
UriUnreserved == Lower \cup Upper \cup Digit \cup {"-","_",".","!","~","*","'","(",")"}

\* The UTF-8 percent escape of a reserved ASCII character
PercentCode(c) ==
  CASE c = " " -> <<"%","2","0">>
    [] c = "$" -> <<"%","2","4">>
    [] c = "%" -> <<"%","2","5">>
    [] c = "&" -> <<"%","2","6">>
    [] c = "/" -> <<"%","2","F">>
    [] c = ":" -> <<"%","3","A">>
    [] c = "{" -> <<"%","7","B">>
    [] c = "}" -> <<"%","7","D">>

RECURSIVE encodeURIComponent(_)
encodeURIComponent(s) ==
  IF s = <<>> THEN <<>>
  ELSE (IF Head(s) \in UriUnreserved THEN <<Head(s)>> ELSE PercentCode(Head(s)))
       \o encodeURIComponent(Tail(s))

DigitChar(d) ==
  CASE d = 0 -> "0" [] d = 1 -> "1" [] d = 2 -> "2" [] d = 3 -> "3" [] d = 4 -> "4"
    [] d = 5 -> "5" [] d = 6 -> "6" [] d = 7 -> "7" [] d = 8 -> "8" [] d = 9 -> "9"

RECURSIVE NatToString(_)
NatToString(n) ==
  IF n < 10 THEN <<DigitChar(n)>>
  ELSE NatToString(n \div 10) \o <<DigitChar(n % 10)>>

IntToString(n) == IF n < 0 THEN <<"-">> \o NatToString(-n) ELSE NatToString(n)

\* String.prototype.toUpperCase on the method names
UpperChar(c) ==
  CASE c = "a" -> "A" [] c = "c" -> "C" [] c = "d" -> "D" [] c = "e" -> "E"
    [] c = "g" -> "G" [] c = "h" -> "H" [] c = "l" -> "L" [] c = "o" -> "O"
    [] c = "p" -> "P" [] c = "s" -> "S" [] c = "t" -> "T" [] c = "u" -> "U"
    [] OTHER -> c

toUpperCase(s) == [i \in 1..Len(s) |-> UpperChar(s[i])]

----------------------------------------------------------------------------
(* Literals of the source                                                  *)

GUID_SENTINEL == <<"{","{","$","g","u","i","d","}","}">>

DATETIME_SENTINEL == <<"{","{","$","d","a","t","e","t","i","m","e"," ","i","s","o","8","6","0","1","}","}">>

HAWKSOFT == <<"/","h","a","w","k","s","o","f","t","/">>

INTEGRATIONS == <<"/","i","n","t","e","g","r","a","t","i","o","n","s">>

ERROR_IN == <<"E","r","r","o","r"," ","i","n"," ">>

HTTP_ERROR == <<"H","T","T","P"," ","e","r","r","o","r"," ">>

CLIENTNUMBER == <<"C","l","i","e","n","t","N","u","m","b","e","r">>

clientNumber == <<"c","l","i","e","n","t","N","u","m","b","e","r">>

X_ORG_ID == <<"X","-","O","r","g","-","I","d">>

organizationId == "8232f2d1-91f2-4d17-9a7e-756dd5dc7544"

HttpMethods == {<<"g","e","t">>, <<"p","o","s","t">>, <<"p","u","t">>,
                <<"d","e","l","e","t","e">>, <<"p","a","t","c","h">>}

----------------------------------------------------------------------------
(* JSON argument values: strings, numbers (n/d, d > 0) and booleans         *)

StrVal(s) == [t |-> "string", s |-> s, n |-> 0, d |-> 1, b |-> FALSE]

NumVal(n, d) == [t |-> "number", s |-> <<>>, n |-> n, d |-> d, b |-> FALSE]

BoolVal(b) == [t |-> "boolean", s |-> <<>>, n |-> 0, d |-> 1, b |-> b]

IsInteger(v) == v.t = "number" /\ v.n % v.d = 0

\* String(value).  The only non-integers of the model are halves.
String(v) ==
  CASE v.t = "string" -> v.s
    [] v.t = "boolean" -> IF v.b THEN <<"t","r","u","e">> ELSE <<"f","a","l","s","e">>
    [] v.t = "number" ->
         IF IsInteger(v) THEN IntToString(v.n \div v.d)
         ELSE IntToString(v.n \div v.d) \o <<".","5">>

----------------------------------------------------------------------------
(* zod validators.  A validator is [kind, values, optional].               *)

\* s matches a fixed-width pattern: "#" a decimal digit, "h" a hex digit,
\* any other pattern character itself
MatchesPattern(s, pat) ==
  /\ Len(s) = Len(pat)
  /\ \A i \in 1..Len(pat) :
       CASE pat[i] = "#" -> s[i] \in Digit
         [] pat[i] = "h" -> s[i] \in HexDigit
         [] OTHER -> s[i] = pat[i]

UuidPattern == <<"h","h","h","h","h","h","h","h","-","h","h","h","h","-","h","h","h","h","-","h","h","h","h","-","h","h","h","h","h","h","h","h","h","h","h","h">>

DateTimePrefix == <<"#","#","#","#","-","#","#","-","#","#","T","#","#",":","#","#",":","#","#">>

DatePattern == <<"#","#","#","#","-","#","#","-","#","#">>

TimePattern == <<"#","#",":","#","#",":","#","#">>

\* z.string().uuid()
IsUuid(s) == MatchesPattern(s, UuidPattern)

\* the zone designator of z.string().datetime({ offset: true })
IsZone(z) ==
  \/ z = <<"Z">>
  \/ MatchesPattern(z, <<"+","#","#",":","#","#">>)
  \/ MatchesPattern(z, <<"-","#","#",":","#","#">>)
  \/ MatchesPattern(z, <<"+","#","#","#","#">>)
  \/ MatchesPattern(z, <<"-","#","#","#","#">>)
  \/ MatchesPattern(z, <<"+","#","#">>)
  \/ MatchesPattern(z, <<"-","#","#">>)

\* z.string().datetime({ offset: true }): date "T" time, an optional
\* fraction of one or more digits, then "Z" or a numeric offset
IsOffsetDateTime(s) ==
  /\ Len(s) > Len(DateTimePrefix)
  /\ MatchesPattern(SubSeq(s, 1, Len(DateTimePrefix)), DateTimePrefix)
  /\ LET r == SubSeq(s, Len(DateTimePrefix) + 1, Len(s)) IN
     \/ IsZone(r)
     \/ /\ r[1] = "."
        /\ \E k \in 2..(Len(r) - 1) :
             /\ \A j \in 2..k : r[j] \in Digit
             /\ IsZone(SubSeq(r, k + 1, Len(r)))

Validator(kind, values, optional) ==
  [kind |-> kind, values |-> values, optional |-> optional]

\* schema.optional()
Optional(v) == [v EXCEPT !.optional = TRUE]

\* Whether a (present) value passes the validator's own check
FieldAccepts(v, val) ==
  CASE v.kind = "string"   -> val.t = "string"
    [] v.kind = "int"      -> val.t = "number" /\ IsInteger(val)
    [] v.kind = "number"   -> val.t = "number"
    [] v.kind = "boolean"  -> val.t = "boolean"
    [] v.kind = "enum"     -> val.t = "string" /\ val.s \in v.values
    [] v.kind = "uuid"     -> val.t = "string" /\ (IsUuid(val.s) \/ val.s = GUID_SENTINEL)
    [] v.kind = "datetime" -> val.t = "string" /\ (IsOffsetDateTime(val.s) \/ val.s = DATETIME_SENTINEL)
    [] v.kind = "date"     -> val.t = "string" /\ MatchesPattern(val.s, DatePattern)
    [] v.kind = "time"     -> val.t = "string" /\ MatchesPattern(val.s, TimePattern)
    [] v.kind = "any"      -> TRUE

\* getZodSchemaForParameter: string unless integer or number; optional
\* unless the parameter is required
getZodSchemaForParameter(param) ==
  LET schema == IF param.type = "integer" THEN Validator("int", {}, FALSE)
                ELSE IF param.type = "number" THEN Validator("number", {}, FALSE)
                ELSE Validator("string", {}, FALSE)
  IN IF param.required THEN schema ELSE Optional(schema)

\* ref.split("/").slice(1), last element: the text after the last "/";
\* undefined (here: found = FALSE) when ref holds no "/"
LastSegment(ref) ==
  LET slashes == {i \in 1..Len(ref) : ref[i] = "/"} IN
  IF slashes = {} THEN [found |-> FALSE, name |-> <<>>]
  ELSE LET last == CHOOSE i \in slashes : \A j \in slashes : j <= i
       IN [found |-> TRUE, name |-> SubSeq(ref, last + 1, Len(ref))]

\* schemas[schemaName]: defined or undefined
HasSchema(schemas, seg) == seg.found /\ seg.name \in DOMAIN schemas

\* resolveSchemaRef(prop.$ref, prop, schemas).  Reading .enum of an
\* undefined referencedSchema throws a TypeError: threw = TRUE.
resolveSchemaRef(ref, prop, schemas) ==
  LET seg == LastSegment(ref)
      byType ==
        IF prop.hasEnum THEN Validator("enum", prop.enum, FALSE)
        ELSE IF prop.type = "integer" THEN Validator("int", {}, FALSE)
        ELSE IF prop.type = "string" THEN
               IF prop.format = "uuid" THEN Validator("uuid", {}, FALSE)
               ELSE IF prop.format \in {"date-time", "datetime"} THEN Validator("datetime", {}, FALSE)
               ELSE IF prop.format = "date" THEN Validator("date", {}, FALSE)
               ELSE IF prop.format = "time" THEN Validator("time", {}, FALSE)
               ELSE Validator("string", {}, FALSE)
        ELSE IF prop.type = "number" THEN Validator("number", {}, FALSE)
        ELSE IF prop.type = "boolean" THEN Validator("boolean", {}, FALSE)
        ELSE Validator("string", {}, FALSE)
  IN IF ref # <<>> /\ ~HasSchema(schemas, seg)
     THEN [threw |-> TRUE, v |-> Validator("string", {}, FALSE)]
     ELSE IF ref # <<>> /\ schemas[seg.name].hasEnum
     THEN [threw |-> FALSE, v |-> Validator("enum", schemas[seg.name].enum, FALSE)]
     ELSE [threw |-> FALSE, v |-> byType]

\* A zod object shape: the keys in insertion order and their validators
EmptyShape == [keys |-> <<>>, v |-> <<>>]

\* paramSchema[key] = validator (a re-assigned key keeps its position)
ShapePut(shape, key, validator) ==
  IF \E i \in 1..Len(shape.keys) : shape.keys[i] = key
  THEN [shape EXCEPT !.v = [i \in 1..Len(shape.keys) |->
                              IF shape.keys[i] = key THEN validator ELSE shape.v[i]]]
  ELSE [keys |-> Append(shape.keys, key), v |-> Append(shape.v, validator)]

ShapeKeys(shape) == {shape.keys[i] : i \in 1..Len(shape.keys)}

ShapeGet(shape, key) ==
  shape.v[CHOOSE i \in 1..Len(shape.keys) : shape.keys[i] = key]

\* The keys on which z.object(shape).parse(obj) raises an issue: a required
\* key that is missing, or a present value its validator rejects
ZodIssues(shape, obj) ==
  {k \in ShapeKeys(shape) :
     IF k \in DOMAIN obj THEN ~FieldAccepts(ShapeGet(shape, k), obj[k])
     ELSE ~ShapeGet(shape, k).optional}

\* The value z.object(shape).parse(obj) returns when there is no issue:
\* the shape's keys that are present; unknown keys are stripped
ZodOutput(shape, obj) ==
  [k \in ShapeKeys(shape) \cap DOMAIN obj |-> obj[k]]

\* ZodError.message: the JSON list of issues, one opaque token per issue
ZodMessage(issues) == <<"<ZodError>">>

----------------------------------------------------------------------------
(* The OpenAPI document (the imported v3.json): an input of the program     *)

Param(name, in, required, type) ==
  [name |-> name, in |-> in, required |-> required, type |-> type]

Prop(name, type, format, ref, hasEnum, enum) ==
  [name |-> name, type |-> type, format |-> format, ref |-> ref,
   hasEnum |-> hasEnum, enum |-> enum]

\* components.schemas[name]: an enum schema or an object schema
EnumSchema(values) ==
  [hasEnum |-> TRUE, enum |-> values, hasProps |-> FALSE, properties |-> <<>>, required |-> {}]

ObjectSchema(properties, required) ==
  [hasEnum |-> FALSE, enum |-> {}, hasProps |-> TRUE, properties |-> properties,
   required |-> required]

\* An operation object.  operationId <<>> is a missing (or empty, equally
\* falsy) operationId.  requestBody is "none" (undefined), "ref" (a JSON
\* body whose schema is the $ref bodyRef) or "inline" (a body with no $ref).
\* resp200 is "json" / "text" (responses["200"] with or without a JSON
\* content) or "absent" (responses has no "200").
Operation(operationId, parameters, requestBody, bodyRef, resp200) ==
  [operationId |-> operationId, parameters |-> parameters,
   requestBody |-> requestBody, bodyRef |-> bodyRef, resp200 |-> resp200]

\* One (path, key) pair of a path item, in Object.entries order
Entry(path, method, operation) ==
  [path |-> path, method |-> method, operation |-> operation]

NoOperation == Operation(<<>>, <<>>, "none", <<>>, "absent")

KX == <<"x">>

KY == <<"y">>

KN == <<"n">>

KA == <<"a">>

KC == <<"c">>

KW == <<"w">>

KU == <<"u">>

KZ == <<"z","z">>

PathItem == <<"/","i","/","{","x","}">>

PathItemTwice == <<"/","i","/","{","x","}","/","c","/","{","x","}">>

PathRaw == <<"/","r","/","{","y","}">>

PathOrders == <<"/","o">>

PathHawksoft == <<"/","h","a","w","k","s","o","f","t","/","c">>

PathMissing == <<"/","m">>

PathNew == <<"/","n">>

\* "#/components/schemas/<name>"
RefTo(name) ==
  <<"#","/","c","o","m","p","o","n","e","n","t","s","/","s","c","h","e","m","a","s","/">> \o name

Schemas ==
  [k \in {<<"I","t","e","m">>, <<"O","r","d","e","r">>, <<"C","u","r","r","e","n","c","y">>,
          <<"C","l","i","e","n","t">>, <<"B","a","d">>, <<"B","l","o","b">>} |->
     CASE k = <<"I","t","e","m">> ->
            ObjectSchema(<<Prop(KN, "string", "", <<>>, FALSE, {})>>, {KN})
       [] k = <<"O","r","d","e","r">> ->
            ObjectSchema(<<Prop(KA, "number", "", <<>>, FALSE, {}),
                           Prop(KC, "", "", RefTo(<<"C","u","r","r","e","n","c","y">>), FALSE, {}),
                           Prop(KW, "string", "date-time", <<>>, FALSE, {})>>, {KA, KC})
       [] k = <<"C","u","r","r","e","n","c","y">> ->
            EnumSchema({<<"U","S","D">>, <<"E","U","R">>})
       [] k = <<"C","l","i","e","n","t">> ->
            ObjectSchema(<<Prop(CLIENTNUMBER, "integer", "", <<>>, FALSE, {}),
                           Prop(KU, "string", "uuid", <<>>, FALSE, {})>>, {CLIENTNUMBER})
       [] k = <<"B","a","d">> ->
            ObjectSchema(<<Prop(KN, "string", "", <<>>, FALSE, {}),
                           Prop(KC, "", "", RefTo(<<"N","o","p","e">>), FALSE, {})>>, {KN})
       [] k = <<"B","l","o","b">> ->
            ObjectSchema(<<Prop(<<"d">>, "object", "", <<>>, FALSE, {})>>, {})]

OpGetItem ==
  Operation(<<"g","e","t","I","t","e","m">>, <<Param(KX, "path", TRUE, "string")>>, "none", <<>>, "text")

OpPutItem ==
  Operation(<<"p","u","t",".","I","t","e","m">>,
            <<Param(KX, "path", TRUE, "integer"), Param(X_ORG_ID, "header", TRUE, "string")>>,
            "ref", RefTo(<<"I","t","e","m">>), "json")

\* a second operation with the operationId of OpGetItem
OpDeleteItem ==
  Operation(<<"g","e","t","I","t","e","m">>, <<Param(KX, "path", TRUE, "string")>>, "none", <<>>, "text")

OpCopyItem ==
  Operation(<<"c","o","p","y"," ","i","t","e","m">>, <<Param(KX, "path", TRUE, "string")>>, "none", <<>>, "text")

\* a path segment {y} that no parameter declares
OpRaw == Operation(<<"r","a","w">>, <<>>, "none", <<>>, "text")

OpOrder == Operation(<<>>, <<>>, "ref", RefTo(<<"O","r","d","e","r">>), "json")

\* a Hawksoft operation; its X-Org-Id header parameter is not required
OpClient ==
  Operation(<<"G","e","t","C","l","i","e","n","t","R","e","c","o","r","d">>,
            <<Param(X_ORG_ID, "header", FALSE, "string")>>,
            "ref", RefTo(<<"C","l","i","e","n","t">>), "json")

\* responses declares "201" only
OpCreate == Operation(<<"c","r","e","a","t","e">>, <<>>, "inline", <<>>, "absent")

OpNope == Operation(<<"n","o","p","e">>, <<>>, "ref", RefTo(<<"N","o","p","e">>), "json")

\* a path parameter with no schema.type, a body field of type "object"
OpBlob ==
  Operation(<<"b","l","o","b">>, <<Param(KX, "path", TRUE, "")>>,
            "ref", RefTo(<<"B","l","o","b">>), "json")

OpBad == Operation(<<"b","a","d">>, <<>>, "ref", RefTo(<<"B","a","d">>), "json")

\* The documents the model is run on.  "parameters" is a path-item key that
\* is not an HTTP method.
Docs ==
  { <<Entry(PathItem, <<"p","a","r","a","m","e","t","e","r","s">>, NoOperation),
      Entry(PathItem, <<"g","e","t">>, OpGetItem),
      Entry(PathItem, <<"p","u","t">>, OpPutItem),
      Entry(PathItem, <<"d","e","l","e","t","e">>, OpDeleteItem)>>,
    <<Entry(PathOrders, <<"p","o","s","t">>, OpOrder),
      Entry(PathItemTwice, <<"g","e","t">>, OpCopyItem)>>,
    <<Entry(PathHawksoft, <<"p","o","s","t">>, OpClient),
      Entry(PathNew, <<"p","o","s","t">>, OpCreate),
      Entry(PathRaw, <<"g","e","t">>, OpRaw)>>,
    <<Entry(PathItem, <<"g","e","t">>, OpGetItem),
      Entry(PathMissing, <<"p","o","s","t">>, OpNope),
      Entry(PathOrders, <<"p","o","s","t">>, OpOrder)>>,
    <<Entry(PathMissing, <<"p","o","s","t">>, OpBad),
      Entry(PathItem, <<"g","e","t">>, OpGetItem)>>,
    <<Entry(PathItem, <<"p","o","s","t">>, OpBlob)>> }

----------------------------------------------------------------------------
(* MyMCP.createToolFromEndpoint: the tool name and the zod shape            *)

\* path.replace(/[/{}/]/g, "_")
ReplaceSeparators(path) ==
  [i \in 1..Len(path) |-> IF path[i] \in {"/", "{", "}"} THEN "_" ELSE path[i]]

\* operation.operationId || `${method}${path.replace(/[/{}/]/g, "_")}`
toolName(path, method, operation) ==
  IF operation.operationId # <<>> THEN operation.operationId
  ELSE method \o ReplaceSeparators(path)

\* parameters.forEach: the path parameters' validators, in order
RECURSIVE PathParamShape(_, _)
PathParamShape(parameters, shape) ==
  IF parameters = <<>> THEN shape
  ELSE LET param == Head(parameters) IN
       PathParamShape(Tail(parameters),
                      IF param.in = "path"
                      THEN ShapePut(shape, param.name, getZodSchemaForParameter(param))
                      ELSE shape)

\* Object.entries(referencedSchema.properties).forEach: every field of the
\* body schema, optional unless listed in required; stops where
\* resolveSchemaRef throws
RECURSIVE BodyShape(_, _, _, _)
BodyShape(properties, referencedSchema, schemas, acc) ==
  IF properties = <<>> \/ acc.threw THEN acc
  ELSE LET prop == Head(properties)
           r == resolveSchemaRef(prop.ref, prop, schemas)
       IN BodyShape(Tail(properties), referencedSchema, schemas,
                    IF r.threw THEN [acc EXCEPT !.threw = TRUE]
                    ELSE [acc EXCEPT !.shape =
                            ShapePut(acc.shape, prop.name,
                                     IF prop.name \in referencedSchema.required
                                     THEN r.v ELSE Optional(r.v))])

\* paramSchema as built before this.server.tool is called; threw = TRUE when
\* the body schema's $ref names no schema (reading .properties of undefined)
\* or resolveSchemaRef throws
paramSchema(operation, schemas) ==
  LET pathShape == PathParamShape(operation.parameters, EmptyShape)
      seg == LastSegment(operation.bodyRef)
  IN IF operation.requestBody # "ref" THEN [threw |-> FALSE, shape |-> pathShape]
     ELSE IF ~HasSchema(schemas, seg) THEN [threw |-> TRUE, shape |-> pathShape]
     ELSE IF ~schemas[seg.name].hasProps THEN [threw |-> FALSE, shape |-> pathShape]
     ELSE BodyShape(schemas[seg.name].properties, schemas[seg.name], schemas,
                    [threw |-> FALSE, shape |-> pathShape])

\* What this.server.tool receives: the name, the shape and the handler's
\* closure (path, method, operation)
Tool(name, shape, path, method, operation, kind) ==
  [name |-> name, shape |-> shape, path |-> path, method |-> method,
   operation |-> operation, kind |-> kind]

CalculateTool ==
  Tool(<<"c","a","l","c","u","l","a","t","e">>,
       ShapePut(ShapePut(ShapePut(EmptyShape,
         <<"o","p","e","r","a","t","i","o","n">>,
         Validator("enum", {<<"a","d","d">>, <<"s","u","b","t","r","a","c","t">>,
                            <<"m","u","l","t","i","p","l","y">>, <<"d","i","v","i","d","e">>}, FALSE)),
         <<"a">>, Validator("number", {}, FALSE)),
         <<"b">>, Validator("number", {}, FALSE)),
       <<>>, <<>>, NoOperation, "calculate")

----------------------------------------------------------------------------
(* JSON text: JSON.parse, JSON.stringify                                    *)

\* A parsed JSON value.  items: an array's elements; keys and items: an
\* object's members, in order.
JNum(n) == [t |-> "number", n |-> n, s |-> <<>>, b |-> FALSE, keys |-> <<>>, items |-> <<>>]

JStr(s) == [t |-> "string", n |-> 0, s |-> s, b |-> FALSE, keys |-> <<>>, items |-> <<>>]

JBool(b) == [t |-> "boolean", n |-> 0, s |-> <<>>, b |-> b, keys |-> <<>>, items |-> <<>>]

JNull == [t |-> "null", n |-> 0, s |-> <<>>, b |-> FALSE, keys |-> <<>>, items |-> <<>>]

JArr(items) == [t |-> "array", n |-> 0, s |-> <<>>, b |-> FALSE, keys |-> <<>>, items |-> items]

JObj(keys, items) == [t |-> "object", n |-> 0, s |-> <<>>, b |-> FALSE, keys |-> keys, items |-> items]

\* A parser result: ok, the value, and the text left
Parsed(v, rest) == [ok |-> TRUE, v |-> v, rest |-> rest]

ParseFail == [ok |-> FALSE, v |-> JNull, rest |-> <<>>]

\* JSON whitespace is skipped between tokens
RECURSIVE SkipWs(_)
SkipWs(s) ==
  IF s # <<>> /\ Head(s) \in {" ", "\n", "\t", "\r"} THEN SkipWs(Tail(s)) ELSE s

\* The digits at the head of s: [n, rest, any]
RECURSIVE ParseDigits(_, _, _)
ParseDigits(s, n, any) ==
  IF s # <<>> /\ Head(s) \in Digit
  THEN ParseDigits(Tail(s), 10 * n + (CHOOSE d \in 0..9 : DigitChar(d) = Head(s)), TRUE)
  ELSE [n |-> n, rest |-> s, any |-> any]

\* The characters up to the closing quote (no escape sequences in the
\* model's texts; a backslash or an unclosed string fails)
RECURSIVE ParseChars(_, _)
ParseChars(s, acc) ==
  IF s = <<>> \/ Head(s) = "\\" THEN [ok |-> FALSE, s |-> <<>>, rest |-> <<>>]
  ELSE IF Head(s) = "\"" THEN [ok |-> TRUE, s |-> acc, rest |-> Tail(s)]
  ELSE ParseChars(Tail(s), Append(acc, Head(s)))

RECURSIVE ParseValue(_)
RECURSIVE ParseElements(_, _)
RECURSIVE ParseMembers(_, _, _)

\* value: a literal, an integer, a string, an array or an object
ParseValue(text) ==
  LET s == SkipWs(text) IN
  IF s = <<>> THEN ParseFail
  ELSE IF StartsWith(s, <<"n","u","l","l">>) THEN Parsed(JNull, SubSeq(s, 5, Len(s)))
  ELSE IF StartsWith(s, <<"t","r","u","e">>) THEN Parsed(JBool(TRUE), SubSeq(s, 5, Len(s)))
  ELSE IF StartsWith(s, <<"f","a","l","s","e">>) THEN Parsed(JBool(FALSE), SubSeq(s, 6, Len(s)))
  ELSE IF Head(s) \in Digit THEN
    LET d == ParseDigits(s, 0, FALSE) IN
    \* no leading zero: "0" alone or a digit 1-9 first
    IF Head(s) = "0" /\ Len(s) - Len(d.rest) > 1 THEN ParseFail
    ELSE Parsed(JNum(d.n), d.rest)
  ELSE IF Head(s) = "-" THEN
    LET d == ParseDigits(Tail(s), 0, FALSE) IN
    IF ~d.any \/ (s[2] = "0" /\ Len(s) - 1 - Len(d.rest) > 1) THEN ParseFail
    ELSE Parsed(JNum(0 - d.n), d.rest)
  ELSE IF Head(s) = "\"" THEN
    LET c == ParseChars(Tail(s), <<>>) IN
    IF c.ok THEN Parsed(JStr(c.s), c.rest) ELSE ParseFail
  ELSE IF Head(s) = "[" THEN
    LET r == SkipWs(Tail(s)) IN
    IF r # <<>> /\ Head(r) = "]" THEN Parsed(JArr(<<>>), Tail(r))
    ELSE ParseElements(r, <<>>)
  ELSE IF Head(s) = "{" THEN
    LET r == SkipWs(Tail(s)) IN
    IF r # <<>> /\ Head(r) = "}" THEN Parsed(JObj(<<>>, <<>>), Tail(r))
    ELSE ParseMembers(r, <<>>, <<>>)
  ELSE ParseFail

\* elements: value ("," value)* "]"
ParseElements(s, acc) ==
  LET e == ParseValue(s) IN
  IF ~e.ok THEN ParseFail
  ELSE LET r == SkipWs(e.rest) IN
       IF r = <<>> THEN ParseFail
       ELSE IF Head(r) = "]" THEN Parsed(JArr(Append(acc, e.v)), Tail(r))
       ELSE IF Head(r) = "," THEN ParseElements(Tail(r), Append(acc, e.v))
       ELSE ParseFail

\* members: string ":" value ("," string ":" value)* "}"
ParseMembers(text, keys, items) ==
  LET s == SkipWs(text) IN
  IF s = <<>> \/ Head(s) # "\"" THEN ParseFail
  ELSE LET k == ParseChars(Tail(s), <<>>)
           c == SkipWs(k.rest)
       IN IF ~k.ok \/ c = <<>> \/ Head(c) # ":" THEN ParseFail
          ELSE LET e == ParseValue(Tail(c)) IN
               IF ~e.ok THEN ParseFail
               ELSE LET r == SkipWs(e.rest) IN
                    IF r = <<>> THEN ParseFail
                    ELSE IF Head(r) = "}"
                      THEN Parsed(JObj(Append(keys, k.s), Append(items, e.v)), Tail(r))
                    ELSE IF Head(r) = ","
                      THEN ParseMembers(Tail(r), Append(keys, k.s), Append(items, e.v))
                    ELSE ParseFail

\* JSON.parse(body): the whole text is one value, or it throws (ok = FALSE)
JSONparse(body) ==
  LET r == ParseValue(body) IN
  IF r.ok /\ SkipWs(r.rest) = <<>> THEN r ELSE ParseFail

Spaces(n) == [i \in 1..n |-> " "]

Quoted(s) == <<"\"">> \o s \o <<"\"">>

\* JSON.stringify(v, null, 2): v printed at the given indentation
RECURSIVE Pretty(_, _)
RECURSIVE PrettyItems(_, _, _, _)
Pretty(v, indent) ==
  CASE v.t = "number"  -> IntToString(v.n)
    [] v.t = "string"  -> Quoted(v.s)
    [] v.t = "boolean" -> IF v.b THEN <<"t","r","u","e">> ELSE <<"f","a","l","s","e">>
    [] v.t = "null"    -> <<"n","u","l","l">>
    [] v.t = "array"   ->
         IF v.items = <<>> THEN <<"[","]">>
         ELSE <<"[","\n">> \o PrettyItems(v, 1, indent + 2, FALSE)
              \o <<"\n">> \o Spaces(indent) \o <<"]">>
    [] v.t = "object"  ->
         IF v.items = <<>> THEN <<"{","}">>
         ELSE <<"{","\n">> \o PrettyItems(v, 1, indent + 2, TRUE)
              \o <<"\n">> \o Spaces(indent) \o <<"}">>

\* the members i.. of v, one per line, separated by ",\n"
PrettyItems(v, i, indent, withKeys) ==
  LET line == Spaces(indent)
                \o (IF withKeys THEN Quoted(v.keys[i]) \o <<":"," ">> ELSE <<>>)
                \o Pretty(v.items[i], indent)
  IN IF i = Len(v.items) THEN line
     ELSE line \o <<",","\n">> \o PrettyItems(v, i + 1, indent, withKeys)

\* String(primitive) of a parsed scalar; String(null) is "null"
ScalarString(v) ==
  CASE v.t = "number"  -> IntToString(v.n)
    [] v.t = "string"  -> v.s
    [] v.t = "boolean" -> IF v.b THEN <<"t","r","u","e">> ELSE <<"f","a","l","s","e">>
    [] v.t = "null"    -> <<"n","u","l","l">>

\* typeof x === "object": arrays, objects and null
TypeofObject(v) == v.t \in {"array", "object", "null"}

\* responseContent.map(item => typeof item === "object" ?
\*   JSON.stringify(item, null, 2) : item).join("\n\n"); join stringifies
\* the primitives
RECURSIVE JoinItems(_, _)
JoinItems(items, i) ==
  LET one == IF TypeofObject(items[i]) THEN Pretty(items[i], 0)
             ELSE ScalarString(items[i])
  IN IF i = Len(items) THEN one
     ELSE one \o <<"\n","\n">> \o JoinItems(items, i + 1)

\* The normalisation without the Array.isArray branch: an array is printed
\* like any other object
NormalizeBodyNoArrayCase(body) ==
  LET r == JSONparse(body) IN
  IF ~r.ok THEN body
  ELSE IF TypeofObject(r.v) THEN Pretty(r.v, 0)
  ELSE ScalarString(r.v)

\* The text of a 2xx response: String(responseContent) after the inner
\* try/catch around JSON.parse
NormalizeBody(body) ==
  LET r == JSONparse(body) IN
  IF ~r.ok THEN body
  ELSE IF TypeofObject(r.v) THEN
         IF r.v.t = "array"
         THEN (IF r.v.items = <<>> THEN <<>> ELSE JoinItems(r.v.items, 1))
         ELSE Pretty(r.v, 0)
  ELSE ScalarString(r.v)

----------------------------------------------------------------------------
(* The tool handler of createToolFromEndpoint, step by step                 *)

CONTENT_TYPE == <<"C","o","n","t","e","n","t","-","T","y","p","e">>

ACCEPT == <<"A","c","c","e","p","t">>

IsGuidSentinel(v) == v.t = "string" /\ v.s = GUID_SENTINEL

IsDatetimeSentinel(v) == v.t = "string" /\ v.s = DATETIME_SENTINEL

\* The pre-processing with the datetime branch left out
substituteGuidOnly(params, uuidOf, nowOf) ==
  [key \in DOMAIN params |->
     IF IsGuidSentinel(params[key]) THEN StrVal(uuidOf[key]) ELSE params[key]]

\* processedParams: a copy of params in which every string equal to a
\* sentinel is replaced; uuidOf and nowOf give the live value drawn for
\* each replaced key
substitutePlaceholders(params, uuidOf, nowOf) ==
  [key \in DOMAIN params |->
     IF IsGuidSentinel(params[key]) THEN StrVal(uuidOf[key])
     ELSE IF IsDatetimeSentinel(params[key]) THEN StrVal(nowOf[key])
     ELSE params[key]]

Braced(key) == <<"{">> \o key \o <<"}">>

\* the Hawksoft prefix correction
PrefixedPath(path) ==
  IF ~StartsWith(path, INTEGRATIONS) /\ Includes(path, HAWKSOFT)
  THEN INTEGRATIONS \o path ELSE path

\* Object.entries(validatedParams).forEach: for each key, in order, that
\* occurs braced in the template, replace its first occurrence in finalPath
RECURSIVE ReplacePathParameters(_, _, _, _)
ReplacePathParameters(keys, validatedParams, path, finalPath) ==
  IF keys = <<>> THEN finalPath
  ELSE LET key == Head(keys) IN
       ReplacePathParameters(Tail(keys), validatedParams, path,
         IF key \in DOMAIN validatedParams /\ Includes(path, Braced(key))
         THEN ReplaceFirst(finalPath, Braced(key),
                           encodeURIComponent(String(validatedParams[key])))
         ELSE finalPath)

finalPath(tool, validatedParams) ==
  ReplacePathParameters(tool.shape.keys, validatedParams, tool.path,
                        PrefixedPath(tool.path))

\* The request headers
\* (a variant of headers without the injection for the Hawksoft family)
headersDeclaredOnly(operation, path) ==
  LET base == [h \in {CONTENT_TYPE, ACCEPT} |->
                 IF h = CONTENT_TYPE THEN "application/json"
                 ELSE IF operation.resp200 = "json" THEN "application/json"
                 ELSE "text/plain"]
      declared == \E i \in 1..Len(operation.parameters) :
                    /\ operation.parameters[i].in = "header"
                    /\ operation.parameters[i].required
                    /\ operation.parameters[i].name = X_ORG_ID
  IN IF declared
     THEN [h \in {CONTENT_TYPE, ACCEPT, X_ORG_ID} |->
             IF h = X_ORG_ID THEN organizationId ELSE base[h]]
     ELSE base

RequiresOrgHeader(parameters) ==
  \E i \in 1..Len(parameters) :
    /\ parameters[i].in = "header"
    /\ parameters[i].required
    /\ parameters[i].name = X_ORG_ID

headers(operation, path) ==
  LET base == [h \in {CONTENT_TYPE, ACCEPT} |->
                 IF h = CONTENT_TYPE THEN "application/json"
                 ELSE IF operation.resp200 = "json" THEN "application/json"
                 ELSE "text/plain"]
  IN IF RequiresOrgHeader(operation.parameters) \/ Includes(path, HAWKSOFT)
     THEN [h \in {CONTENT_TYPE, ACCEPT, X_ORG_ID} |->
             IF h = X_ORG_ID THEN organizationId ELSE base[h]]
     ELSE base

\* bodyParams: a copy of validatedParams with ClientNumber renamed to
\* clientNumber
bodyParams(validatedParams) ==
  IF CLIENTNUMBER \in DOMAIN validatedParams
  THEN [key \in (DOMAIN validatedParams \ {CLIENTNUMBER}) \cup {clientNumber} |->
          IF key = clientNumber THEN validatedParams[CLIENTNUMBER]
          ELSE validatedParams[key]]
  ELSE validatedParams

\* The order of bodyParams' keys: the shape's order, a new clientNumber last
BodyKeyOrder(shapeKeys, validatedParams) ==
  LET present == SelectSeq(shapeKeys, LAMBDA k : k \in DOMAIN validatedParams /\ k # CLIENTNUMBER)
  IN IF CLIENTNUMBER \in DOMAIN validatedParams /\ clientNumber \notin DOMAIN validatedParams
     THEN Append(present, clientNumber) ELSE present

\* JSON.stringify(bodyParams): the members in key order, no whitespace
RECURSIVE JSONmembers(_, _)
JSONmembers(keys, obj) ==
  IF keys = <<>> THEN <<>>
  ELSE Quoted(Head(keys)) \o <<":">> \o (IF obj[Head(keys)].t = "string" THEN Quoted(obj[Head(keys)].s)
                                    ELSE String(obj[Head(keys)]))
       \o (IF Len(keys) > 1 THEN <<",">> ELSE <<>>)
       \o JSONmembers(Tail(keys), obj)

JSONstringify(keys, obj) == <<"{">> \o JSONmembers(keys, obj) \o <<"}">>

\* res.ok with the upper end of the range forgotten
ResOkNoUpperBound(status) == status >= 200

\* res.ok
ResOk(status) == status \in 200..299

\* `Error in ${toolName}: ${error.message}`
ErrorText(name, message) == ERROR_IN \o name \o <<":", " ">> \o message

\* error.message of the TypeError of operation.responses["200"].content
\* when responses has no "200"
TypeErrorMessage == <<"<TypeError: Cannot read properties of undefined (reading 'content')>">>

\* error.message of a rejected fetch or of a rejected res.text()
NetworkErrorMessage == <<"<TypeError: fetch failed>">>

\* body || `HTTP error ${res.status}`
HttpErrorMessage(status, body) ==
  IF body # <<>> THEN body ELSE HTTP_ERROR \o IntToString(status)

----------------------------------------------------------------------------
(* State                                                                   *)

VARIABLES
  doc,        \* Object.entries of openApiSchema.paths, flattened
  initPc,     \* MyMCP.init: "running", "done" or "threw"
  pos,        \* the entry of doc that init handles next
  tools,      \* the calls of this.server.tool so far, in order
  inv,        \* the handler invocations, per slot
  swagger     \* the swagger-client variant: its init pass, tools and invocation

vars == <<doc, initPc, pos, tools, inv, swagger>>

\* Invocation slots of the host
NumSlots == 2

Slots == 1..NumSlots

\* A slot with no invocation in it
FreeSlot ==
  [pc |-> "Free", tool |-> 0, params |-> <<>>, processedParams |-> <<>>,
   parsed |-> <<>>, validatedParams |-> <<>>, finalPath |-> <<>>, method |-> <<>>, headers |-> <<>>,
   hasBody |-> FALSE, body |-> <<>>, fetches |-> 0, status |-> 0, bodyRead |-> FALSE,
   resBody |-> <<>>, responseContent |-> <<>>, text |-> <<>>, failedAt |-> ""]

\* The swagger-client variant before its init runs
SwaggerIdle ==
  [initPc |-> "idle", pos |-> 1, tools |-> <<>>,
   inv |-> [pc |-> "Free", tool |-> 0, args |-> <<>>, text |-> <<>>]]

Init ==
  /\ doc \in Docs
  /\ initPc = "running"
  /\ pos = 1
  /\ tools = <<>>
  /\ inv = [i \in Slots |-> FreeSlot]
  /\ swagger = SwaggerIdle

----------------------------------------------------------------------------
(* MyMCP.init                                                               *)

\* One iteration of the forEach over the path items' entries: a key that is
\* no HTTP method is skipped
SkipNonMethod ==
  /\ initPc = "running" /\ pos <= Len(doc)
  /\ doc[pos].method \notin HttpMethods
  /\ pos' = pos + 1
  /\ UNCHANGED <<doc, initPc, tools, inv, swagger>>

\* createToolFromEndpoint reaches this.server.tool
CreateTool ==
  /\ initPc = "running" /\ pos <= Len(doc)
  /\ doc[pos].method \in HttpMethods
  /\ LET e == doc[pos]
         built == paramSchema(e.operation, Schemas)
     IN /\ ~built.threw
        /\ tools' = Append(tools, Tool(toolName(e.path, e.method, e.operation),
                                       built.shape, e.path, e.method, e.operation,
                                       "endpoint"))
  /\ pos' = pos + 1
  /\ UNCHANGED <<doc, initPc, inv, swagger>>

\* createToolFromEndpoint throws while it builds paramSchema: nothing
\* catches it, so forEach and init end there
CreateToolThrows ==
  /\ initPc = "running" /\ pos <= Len(doc)
  /\ doc[pos].method \in HttpMethods
  /\ paramSchema(doc[pos].operation, Schemas).threw
  /\ initPc' = "threw"
  /\ UNCHANGED <<doc, pos, tools, inv, swagger>>

\* After the loop: the calculator tool, and init returns
RegisterCalculate ==
  /\ initPc = "running" /\ pos > Len(doc)
  /\ tools' = Append(tools, CalculateTool)
  /\ initPc' = "done"
  /\ UNCHANGED <<doc, pos, inv, swagger>>

----------------------------------------------------------------------------
(* One invocation of a generated tool's handler                            *)

\* The argument names the model supplies to a tool: its shape's keys, the
\* names braced in its path template, and one name the shape does not know
ArgKeys(tool) ==
  ShapeKeys(tool.shape) \cup {k \in {KX, KY} : Includes(tool.path, Braced(k))} \cup {KZ}

\* The names of the operation's header parameters: a caller may supply
\* arguments under them too
HeaderKeys(tool) ==
  {tool.operation.parameters[j].name : j \in
     {j \in 1..Len(tool.operation.parameters) : tool.operation.parameters[j].in = "header"}}

ArgValues ==
  { StrVal(<<"4","2">>), StrVal(<<"{","x","}"," ","$","&">>), StrVal(<<"U","S","D">>),
    StrVal(GUID_SENTINEL), StrVal(DATETIME_SENTINEL),
    NumVal(7, 1), NumVal(3, 2), BoolVal(TRUE) }

Args(tool) == UNION {[D -> ArgValues] : D \in SUBSET (ArgKeys(tool) \cup HeaderKeys(tool))}

\* A smaller choice of arguments, for the runs that check progress
FewArgs(tool) ==
  UNION {[D -> {StrVal(<<"4","2">>), StrVal(GUID_SENTINEL), NumVal(7, 1)}] :
           D \in SUBSET (ArgKeys(tool) \ {KZ})}

\* The host calls the handler of a registered endpoint tool with params
\* drawn from Args(tool), or from FewArgs(tool) when few.  The handler
\* shares no variable with another invocation (its state is its closure and
\* its locals), so invocations are taken one at a time, in any slot.
CallWith(i, few) ==
  /\ initPc = "done"
  /\ \A j \in Slots : inv[j].pc = "Free"
  /\ \E t \in 1..Len(tools) :
       /\ tools[t].kind = "endpoint"
       /\ \E params \in (IF few THEN FewArgs(tools[t]) ELSE Args(tools[t])) :
            inv' = [inv EXCEPT ![i] = [FreeSlot EXCEPT !.pc = "Idle", !.tool = t,
                                                       !.params = params]]
  /\ UNCHANGED <<doc, initPc, pos, tools, swagger>>

\* The handler's tool
ToolOf(i) == tools[inv[i].tool]

\* catch (error): the handler returns the error text
Fail(i, message) ==
  [inv[i] EXCEPT !.pc = "Failed", !.failedAt = inv[i].pc,
                 !.text = ErrorText(ToolOf(i).name, message)]

\* The pre-processing of the special placeholders
SubstitutePlaceholders(i) ==
  /\ inv[i].pc = "Idle"
  /\ LET params == inv[i].params
         guids == {k \in DOMAIN params : IsGuidSentinel(params[k])}
         dates == {k \in DOMAIN params : IsDatetimeSentinel(params[k])}
         \* what crypto.randomUUID() may return
         uuids ==
             { <<"3","f","2","b","8","c","1","e","-","7","a","4","d","-","4","e","9","b","-","8","c","2","a","-","0","d","1","e","2","f","3","a","4","b","5","c">>,
               <<"9","b","1","d","e","b","4","d","-","3","b","7","d","-","4","b","a","d","-","9","b","d","d","-","2","b","0","d","7","b","3","d","c","b","6","d">> }
         \* what new Date().toISOString() may return
         instants ==
             { <<"2","0","2","6","-","1","1","-","0","4","T","1","0",":","2","4",":","0","0",".","0","0","0","Z">>,
               <<"2","0","2","6","-","1","1","-","0","4","T","1","0",":","2","4",":","0","0",".","0","0","1","Z">> }
     IN \E uuidOf \in [guids -> uuids], nowOf \in [dates -> instants] :
          inv' = [inv EXCEPT ![i].pc = "PlaceholderSubstituted",
                             ![i].processedParams =
                                substitutePlaceholders(params, uuidOf, nowOf)]
  /\ UNCHANGED <<doc, initPc, pos, tools, swagger>>

\* Validate with the outcome of the parse ignored (safeParse unchecked)
ValidateUnchecked(i) ==
  /\ inv[i].pc = "PlaceholderSubstituted"
  /\ inv' = [inv EXCEPT ![i].pc = "Validated",
                        ![i].parsed = inv[i].processedParams,
                        ![i].validatedParams =
                           ZodOutput(ToolOf(i).shape, inv[i].processedParams)]
  /\ UNCHANGED <<doc, initPc, pos, tools, swagger>>

\* z.object(paramSchema).parse(processedParams): the parsed value, or a
\* ZodError that the catch turns into the result
Validate(i) ==
  /\ inv[i].pc = "PlaceholderSubstituted"
  /\ LET issues == ZodIssues(ToolOf(i).shape, inv[i].processedParams) IN
     inv' = [inv EXCEPT ![i] =
               IF issues = {}
               THEN [inv[i] EXCEPT !.pc = "Validated",
                                   !.parsed = inv[i].processedParams,
                                   !.validatedParams =
                                      ZodOutput(ToolOf(i).shape, inv[i].processedParams)]
               ELSE [Fail(i, ZodMessage(issues)) EXCEPT !.parsed = inv[i].processedParams]]
  /\ UNCHANGED <<doc, initPc, pos, tools, swagger>>

\* A reading of operation.responses["200"] that never throws
Declares200Always(operation) == TRUE

\* operation.responses["200"] is an object, so that reading its .content
\* does not throw
Declares200(operation) == operation.resp200 # "absent"

\* The path, the headers and requestInit; reading
\* operation.responses["200"].content throws when there is no "200"
BuildRequest(i) ==
  /\ inv[i].pc = "Validated"
  /\ LET tool == ToolOf(i)
         validated == inv[i].validatedParams
         path == finalPath(tool, validated)
     IN inv' = [inv EXCEPT ![i] =
                  IF ~Declares200(tool.operation)
                  THEN Fail(i, TypeErrorMessage)
                  ELSE [inv[i] EXCEPT
                          !.pc = "RequestBuilt",
                          !.finalPath = path,
                          !.method = toUpperCase(tool.method),
                          !.headers = headers(tool.operation, path),
                          !.hasBody = tool.operation.requestBody # "none",
                          !.body = IF tool.operation.requestBody # "none"
                                   THEN JSONstringify(
                                          BodyKeyOrder(tool.shape.keys, validated),
                                          bodyParams(validated))
                                   ELSE <<>>]]
  /\ UNCHANGED <<doc, initPc, pos, tools, swagger>>

\* fetch(`${baseUrl}${finalPath}`, requestInit) sends the request
Fetch(i) ==
  /\ inv[i].pc = "RequestBuilt" /\ inv[i].fetches = 0
  /\ inv' = [inv EXCEPT ![i].fetches = 1]
  /\ UNCHANGED <<doc, initPc, pos, tools, swagger>>

Statuses == {200, 204, 404, 500}

ResBodies ==
  { <<>>, <<"o","k">>, <<"7">>,
    <<"[","{","\"","a","\"",":","1","}",",","\"","a","\"","]">>,
    <<"{","\"","a","\"",":","1","}">> }

\* await fetch(...) resolves with a response of some status
FetchResolves(i) ==
  /\ inv[i].pc = "RequestBuilt" /\ inv[i].fetches = 1
  /\ \E status \in Statuses :
       inv' = [inv EXCEPT ![i].pc = "Invoked", ![i].status = status]
  /\ UNCHANGED <<doc, initPc, pos, tools, swagger>>

\* A rejected fetch answered by sending the request once more
FetchRejectsRetries(i) ==
  /\ inv[i].pc = "RequestBuilt" /\ inv[i].fetches = 1
  /\ inv' = [inv EXCEPT ![i].fetches = 2]
  /\ UNCHANGED <<doc, initPc, pos, tools, swagger>>

\* await fetch(...) rejects (the network fails)
FetchRejects(i) ==
  /\ inv[i].pc = "RequestBuilt" /\ inv[i].fetches = 1
  /\ inv' = [inv EXCEPT ![i] = Fail(i, NetworkErrorMessage)]
  /\ UNCHANGED <<doc, initPc, pos, tools, swagger>>

\* await res.text() resolves with the body
ReadBody(i) ==
  /\ inv[i].pc = "Invoked" /\ ~inv[i].bodyRead
  /\ \E body \in ResBodies :
       inv' = [inv EXCEPT ![i].bodyRead = TRUE, ![i].resBody = body]
  /\ UNCHANGED <<doc, initPc, pos, tools, swagger>>

\* await res.text() rejects
ReadBodyRejects(i) ==
  /\ inv[i].pc = "Invoked" /\ ~inv[i].bodyRead
  /\ inv' = [inv EXCEPT ![i] = Fail(i, NetworkErrorMessage)]
  /\ UNCHANGED <<doc, initPc, pos, tools, swagger>>

\* NormalizeBody on the bodies the model's network returns, computed once
NormalizedBody == [body \in ResBodies |-> NormalizeBody(body)]

\* if (!res.ok) throw ...; otherwise the body is normalised
Normalize(i) ==
  /\ inv[i].pc = "Invoked" /\ inv[i].bodyRead
  /\ inv' = [inv EXCEPT ![i] =
               IF ~ResOk(inv[i].status)
               THEN Fail(i, HttpErrorMessage(inv[i].status, inv[i].resBody))
               ELSE [inv[i] EXCEPT !.pc = "Normalized",
                                   !.responseContent = NormalizedBody[inv[i].resBody]]]
  /\ UNCHANGED <<doc, initPc, pos, tools, swagger>>

\* The return with responseContent kept in one variable of the closure,
\* written by every invocation: the text is what was normalised last
ReturnShared(i) ==
  /\ inv[i].pc = "Normalized"
  /\ LET last == CHOOSE j \in Slots :
                   /\ inv[j].pc = "Normalized"
                   /\ \A k \in Slots : inv[k].pc = "Normalized" => k <= j
     IN inv' = [inv EXCEPT ![i].pc = "Done", ![i].text = inv[last].responseContent]
  /\ UNCHANGED <<doc, initPc, pos, tools, swagger>>

\* return { content: [{ type: "text", text: String(responseContent) }] }
Return(i) ==
  /\ inv[i].pc = "Normalized"
  /\ inv' = [inv EXCEPT ![i].pc = "Done", ![i].text = inv[i].responseContent]
  /\ UNCHANGED <<doc, initPc, pos, tools, swagger>>

\* The host has taken the result: the slot is free again
Deliver(i) ==
  /\ inv[i].pc \in {"Done", "Failed"}
  /\ inv' = [inv EXCEPT ![i] = FreeSlot]
  /\ UNCHANGED <<doc, initPc, pos, tools, swagger>>

\* The synchronous steps of the handler: once the handler runs, JavaScript
\* runs each to completion
Step(i) ==
  \/ SubstitutePlaceholders(i)
  \/ Validate(i)
  \/ BuildRequest(i)
  \/ Fetch(i)
  \/ Normalize(i)
  \/ Return(i)

Next ==
  \/ SkipNonMethod
  \/ CreateTool
  \/ CreateToolThrows
  \/ RegisterCalculate
  \/ \E i \in Slots :
       \/ Step(i)
       \/ CallWith(i, FALSE)
       \/ FetchResolves(i)
       \/ FetchRejects(i)
       \/ ReadBody(i)
       \/ ReadBodyRejects(i)
       \/ Deliver(i)

Spec == Init /\ [][Next]_vars

NextFew ==
  \/ SkipNonMethod
  \/ CreateTool
  \/ CreateToolThrows
  \/ RegisterCalculate
  \/ \E i \in Slots :
       \/ Step(i)
       \/ CallWith(i, TRUE)
       \/ FetchResolves(i)
       \/ FetchRejects(i)
       \/ ReadBody(i)
       \/ ReadBodyRejects(i)
       \/ Deliver(i)

\* The handler's own steps are not suspended forever (JavaScript runs each
\* synchronous stretch to completion); the network and the host owe nothing
FairSpec == Init /\ [][NextFew]_vars /\ \A i \in Slots : WF_vars(Step(i))

\* The arguments of the calls that overlap: the tool "blob" with a valid
\* and with an incomplete argument set, every other tool with no arguments
OverlapArgs(tool) ==
  IF tool.name = <<"b","l","o","b">>
  THEN { [k \in {KX, <<"d">>} |-> IF k = KX THEN StrVal(<<"4","2">>) ELSE StrVal(<<"U","S","D">>)],
         [k \in {<<"d">>} |-> StrVal(<<"4","2">>)] }
  ELSE { <<>> }

\* The host calls a handler while other invocations are suspended at their
\* awaits (fetch, res.text()) or have not been resumed yet
CallOverlapping(i) ==
  /\ initPc = "done"
  /\ inv[i].pc = "Free"
  /\ \E t \in 1..Len(tools) :
       /\ tools[t].kind = "endpoint"
       /\ \E params \in OverlapArgs(tools[t]) :
            inv' = [inv EXCEPT ![i] = [FreeSlot EXCEPT !.pc = "Idle", !.tool = t,
                                                       !.params = params]]
  /\ UNCHANGED <<doc, initPc, pos, tools, swagger>>

NextOverlap ==
  \/ SkipNonMethod
  \/ CreateTool
  \/ CreateToolThrows
  \/ RegisterCalculate
  \/ \E i \in Slots :
       \/ Step(i)
       \/ CallOverlapping(i)
       \/ FetchResolves(i)
       \/ FetchRejects(i)
       \/ ReadBody(i)
       \/ ReadBodyRejects(i)
       \/ Deliver(i)

\* Invocations in all slots at once, interleaved step by step
SpecOverlap == Init /\ [][NextOverlap]_vars

----------------------------------------------------------------------------
(* The swagger-client variant of the server (src/unnamed/part_000)          *)

MaxToolNameLength == 64

NameChars == Lower \cup Upper \cup Digit \cup {"_", "-"}

\* toolName.replace(/[^a-zA-Z0-9_-]/g, "_")
SanitizeName(name) ==
  [i \in 1..Len(name) |-> IF name[i] \in NameChars THEN name[i] ELSE "_"]

\* toolName.substring(0, 64)
Substring64(name) ==
  IF Len(name) > MaxToolNameLength THEN SubSeq(name, 1, MaxToolNameLength) ELSE name

\* operation.operationId || `${tagName}_${opId}`, sanitized and cut
swaggerToolName(operation, tagName, opId) ==
  Substring64(SanitizeName(
    IF operation.operationId # <<>> THEN operation.operationId
    ELSE tagName \o <<"_">> \o opId))

\* paramSchemas of the variant: z.any() unless string, number or boolean;
\* "body" is z.any()
RECURSIVE SwaggerParamShape(_, _)
SwaggerParamShape(parameters, shape) ==
  IF parameters = <<>> THEN shape
  ELSE LET p == Head(parameters)
           schema == IF p.type = "boolean" THEN Validator("boolean", {}, FALSE)
                     ELSE IF p.type = "number" THEN Validator("number", {}, FALSE)
                     ELSE IF p.type = "string" THEN Validator("string", {}, FALSE)
                     ELSE Validator("any", {}, FALSE)
       IN SwaggerParamShape(Tail(parameters), ShapePut(shape, p.name, schema))

swaggerParamSchemas(operation) ==
  LET shape == SwaggerParamShape(operation.parameters, EmptyShape) IN
  IF operation.requestBody = "ref" \/ operation.requestBody = "inline"
  THEN ShapePut(shape, <<"b","o","d","y">>, Validator("any", {}, FALSE))
  ELSE shape

\* client.apis: (tagName, opId, operation) in iteration order
SwaggerApis ==
  << [tagName |-> <<"i","t","e","m","s">>, opId |-> <<"g","e","t","I","t","e","m">>, operation |-> OpGetItem],
     [tagName |-> <<"i","t","e","m","s">>, opId |-> <<"p","u","t",".","I","t","e","m">>, operation |-> OpPutItem],
     [tagName |-> <<"m","y"," ","o","r","d","e","r","s">>, opId |-> <<"p","o","s","t"," ","o">>, operation |-> OpOrder] >>

\* init of the variant starts: the client is built
SwaggerInit ==
  /\ swagger.initPc = "idle"
  /\ swagger' = [swagger EXCEPT !.initPc = "running"]
  /\ UNCHANGED <<doc, initPc, pos, tools, inv>>

\* One iteration of the loops over client.apis: this.server.tool(...)
SwaggerRegister ==
  /\ swagger.initPc = "running" /\ swagger.pos <= Len(SwaggerApis)
  /\ LET a == SwaggerApis[swagger.pos] IN
     swagger' = [swagger EXCEPT
       !.pos = swagger.pos + 1,
       !.tools = Append(swagger.tools,
                        Tool(swaggerToolName(a.operation, a.tagName, a.opId),
                             swaggerParamSchemas(a.operation), <<>>, <<>>,
                             a.operation, "swagger"))]
  /\ UNCHANGED <<doc, initPc, pos, tools, inv>>

SwaggerInitDone ==
  /\ swagger.initPc = "running" /\ swagger.pos > Len(SwaggerApis)
  /\ swagger' = [swagger EXCEPT !.initPc = "done"]
  /\ UNCHANGED <<doc, initPc, pos, tools, inv>>

\* The host calls a tool of the variant: the handler calls through
\* swagger-client and awaits
SwaggerCall ==
  /\ swagger.initPc = "done" /\ swagger.inv.pc = "Free"
  /\ \E t \in 1..Len(swagger.tools), args \in UNION {[D -> ArgValues] : D \in SUBSET {KX}} :
       swagger' = [swagger EXCEPT !.inv = [pc |-> "Awaiting", tool |-> t,
                                           args |-> args, text |-> <<>>]]
  /\ UNCHANGED <<doc, initPc, pos, tools, inv>>

\* JSON.stringify(res.body): the parsed body, compact
RECURSIVE Compact(_)
RECURSIVE CompactItems(_, _, _)
Compact(v) ==
  CASE v.t = "number"  -> IntToString(v.n)
    [] v.t = "string"  -> Quoted(v.s)
    [] v.t = "boolean" -> IF v.b THEN <<"t","r","u","e">> ELSE <<"f","a","l","s","e">>
    [] v.t = "null"    -> <<"n","u","l","l">>
    [] v.t = "array"   -> <<"[">> \o CompactItems(v, 1, FALSE) \o <<"]">>
    [] v.t = "object"  -> <<"{">> \o CompactItems(v, 1, TRUE) \o <<"}">>

CompactItems(v, i, withKeys) ==
  IF i > Len(v.items) THEN <<>>
  ELSE (IF withKeys THEN Quoted(v.keys[i]) \o <<":">> ELSE <<>>)
       \o Compact(v.items[i])
       \o (IF i < Len(v.items) THEN <<",">> ELSE <<>>)
       \o CompactItems(v, i + 1, withKeys)

\* contentType.includes("application/json")
IsJsonContent(contentType) == contentType = "application/json"

\* The awaited call resolves: the payload is the parsed body re-serialised
\* for a JSON response, the raw text otherwise
SwaggerResolves ==
  /\ swagger.inv.pc = "Awaiting"
  /\ \E contentType \in {"application/json", "text/plain", ""}, body \in ResBodies :
       /\ IsJsonContent(contentType) => JSONparse(body).ok
       /\ swagger' = [swagger EXCEPT
            !.inv.pc = "Returned",
            !.inv.text = IF IsJsonContent(contentType)
                         THEN Compact(JSONparse(body).v) ELSE body]
  /\ UNCHANGED <<doc, initPc, pos, tools, inv>>

\* The awaited call rejects (the network fails, or swagger-client rejects a
\* non-2xx response): the handler has no try/catch, so its promise rejects
SwaggerRejects ==
  /\ swagger.inv.pc = "Awaiting"
  /\ swagger' = [swagger EXCEPT !.inv.pc = "Threw"]
  /\ UNCHANGED <<doc, initPc, pos, tools, inv>>

SwaggerDeliver ==
  /\ swagger.inv.pc \in {"Returned", "Threw"}
  /\ swagger' = [swagger EXCEPT !.inv = [pc |-> "Free", tool |-> 0, args |-> <<>>, text |-> <<>>]]
  /\ UNCHANGED <<doc, initPc, pos, tools, inv>>

SwaggerNext ==
  \/ SwaggerInit
  \/ SwaggerRegister
  \/ SwaggerInitDone
  \/ SwaggerCall
  \/ SwaggerResolves
  \/ SwaggerRejects
  \/ SwaggerDeliver

\* The variant alone: the other server never starts
SpecSwagger == Init /\ [][SwaggerNext]_vars

----------------------------------------------------------------------------
(* Claims                                                                   *)

Terminal == {"Done", "Failed"}

ErrorPrefix(name) == ERROR_IN \o name \o <<":", " ">>

\* C1: no invocation of a generated tool propagates a thrown error to the
\* host; each ends with a returned text, which on failure starts with
\* "Error in <toolName>: ".  Stated for the handlers of both servers.
C1_NoThrownError ==
  /\ swagger.inv.pc # "Threw"
  /\ \A i \in Slots :
       inv[i].pc = "Failed" => StartsWith(inv[i].text, ErrorPrefix(ToolOf(i).name))

\* The part of C1 that the handler of createToolFromEndpoint satisfies:
\* every failure is a returned text with the prefix and a message
HandlerCatchesAll ==
  \A i \in Slots :
    inv[i].pc = "Failed" =>
      /\ StartsWith(inv[i].text, ErrorPrefix(ToolOf(i).name))
      /\ Len(inv[i].text) > Len(ErrorPrefix(ToolOf(i).name))

\* C2: when the substituted arguments fail the tool's validator, the
\* invocation is Failed, its text reports the ZodError under the tool's
\* name, and no request was sent.
C2_ValidationFailureSendsNothing ==
  \A i \in Slots :
    ( /\ inv[i].pc \notin {"Free", "Idle", "PlaceholderSubstituted"}
      /\ ZodIssues(ToolOf(i).shape, inv[i].processedParams) # {} )
    => /\ inv[i].pc = "Failed"
       /\ inv[i].failedAt = "PlaceholderSubstituted"
       /\ inv[i].text = ErrorPrefix(ToolOf(i).name)
                          \o ZodMessage(ZodIssues(ToolOf(i).shape, inv[i].processedParams))
       /\ inv[i].fetches = 0

\* An order with a currency outside the enum has failed validation
C2_Witness ==
  \E i \in Slots :
    /\ inv[i].pc = "Failed"
    /\ ToolOf(i).path = PathOrders
    /\ DOMAIN inv[i].processedParams = {KA, KC}
    /\ inv[i].processedParams[KA] = NumVal(7, 1)
    /\ inv[i].processedParams[KC] = StrVal(<<"4","2">>)
    /\ KC \in ZodIssues(ToolOf(i).shape, inv[i].processedParams)
    /\ inv[i].fetches = 0

\* C3: a response whose status is not 2xx is never normalised; once its
\* body is read the invocation is Failed and its text is the tool's prefix
\* followed by the body, or by "HTTP error <status>" when the body is empty.
C3_NonOkStatusFails ==
  \A i \in Slots :
    (inv[i].status # 0 /\ inv[i].status \notin 200..299) =>
      /\ inv[i].pc \in {"Invoked", "Failed"}
      /\ inv[i].responseContent = <<>>
      /\ (inv[i].pc = "Failed" /\ inv[i].bodyRead) =>
           /\ inv[i].text =
                ErrorPrefix(ToolOf(i).name)
                  \o (IF inv[i].resBody # <<>> THEN inv[i].resBody
                      ELSE HTTP_ERROR \o IntToString(inv[i].status))
           /\ Len(inv[i].text) > Len(ErrorPrefix(ToolOf(i).name))

\* A 404 with an empty body has produced "Error in getItem: HTTP error 404"
C3_Witness ==
  \E i \in Slots :
    /\ inv[i].pc = "Failed" /\ inv[i].status = 404
    /\ inv[i].bodyRead /\ inv[i].resBody = <<>>
    /\ inv[i].text = ErrorPrefix(ToolOf(i).name) \o HTTP_ERROR \o <<"4","0","4">>

NonTerminal ==
  {"Idle", "PlaceholderSubstituted", "Validated", "RequestBuilt", "Invoked", "Normalized"}

Successor(pc) ==
  CASE pc = "Idle" -> "PlaceholderSubstituted"
    [] pc = "PlaceholderSubstituted" -> "Validated"
    [] pc = "Validated" -> "RequestBuilt"
    [] pc = "RequestBuilt" -> "Invoked"
    [] pc = "Invoked" -> "Normalized"
    [] pc = "Normalized" -> "Done"

\* Every change of an invocation's state is the next state of the chain, or
\* Failed from a non-terminal state; Done and Failed are left only when the
\* host takes the result; the request count never exceeds one and never
\* goes back while the invocation lasts
C4_Transitions ==
  \A i \in Slots :
    /\ inv[i].pc' # inv[i].pc =>
         \/ inv[i].pc = "Free" /\ inv[i].pc' = "Idle"
         \/ inv[i].pc \in NonTerminal /\ inv[i].pc' \in {Successor(inv[i].pc), "Failed"}
         \/ inv[i].pc \in Terminal /\ inv[i].pc' = "Free"
    /\ inv[i].fetches' <= 1
    /\ inv[i].pc' # "Free" => inv[i].fetches' >= inv[i].fetches
    /\ inv[i].pc' \in {"Invoked", "Normalized", "Done"} => inv[i].fetches' = 1

\* C4: the states are passed in the order Idle, PlaceholderSubstituted,
\* Validated, RequestBuilt, Invoked, Normalized, Done, each at most once,
\* Failed is entered only from a non-terminal state, Done and Failed are
\* terminal, at most one request is sent per invocation, an invocation
\* reaches its request or ends, and one whose response and body have arrived
\* ends in Done or Failed.
C4_StateMachine ==
  /\ [][C4_Transitions]_vars
  /\ \A i \in Slots :
       /\ (inv[i].pc = "Idle") ~> (inv[i].pc \in Terminal \/ inv[i].fetches = 1)
       /\ (inv[i].pc = "Invoked" /\ inv[i].bodyRead) ~> (inv[i].pc \in Terminal)

\* An invocation is Done after exactly one request
C4_Witness ==
  \E i \in Slots : inv[i].pc = "Done" /\ inv[i].fetches = 1 /\ inv[i].status = 200

\* The keys of a tool's path template among the validated arguments
PathKeys(tool, validatedParams) ==
  {k \in DOMAIN validatedParams : Includes(tool.path, Braced(k))}

\* init has called this.server.tool twice under one name.  What McpServer
\* does with the second call is decided in @modelcontextprotocol/sdk; the
\* model records the calls, in order, in tools.
SameNameTwice ==
  \E t, u \in 1..Len(tools) : t < u /\ tools[t].name = tools[u].name

\* An operation whose body schema, or one of whose body properties, refers
\* to a schema that components.schemas does not hold
RefersToMissingSchema(operation) ==
  /\ operation.requestBody = "ref"
  /\ LET seg == LastSegment(operation.bodyRef) IN
     \/ ~HasSchema(Schemas, seg)
     \/ \E p \in 1..Len(Schemas[seg.name].properties) :
          LET ref == Schemas[seg.name].properties[p].ref IN
          ref # <<>> /\ ~HasSchema(Schemas, LastSegment(ref))

Registered(e) ==
  \E t \in 1..Len(tools) :
    tools[t].kind = "endpoint" /\ tools[t].path = e.path /\ tools[t].method = e.method

\* C6: when an operation of the document refers to a missing schema, that
\* operation's tool and the tool of every other operation are registered
\* once init has ended.
C6_MissingSchemaStillRegisters ==
  ( /\ initPc # "running"
    /\ \E p \in 1..Len(doc) :
         doc[p].method \in HttpMethods /\ RefersToMissingSchema(doc[p].operation) )
  => \A p \in 1..Len(doc) : doc[p].method \in HttpMethods => Registered(doc[p])

\* C7: the name of every tool registered for an operation with an
\* operationId is that identifier with every character outside
\* [A-Za-z0-9_-] replaced by "_", cut to 64 characters, and so matches
\* ^[A-Za-z0-9_-]{1,64}$.
C7_NameIsSanitizedIdentifier ==
  \A t \in 1..Len(tools) :
    (tools[t].kind = "endpoint" /\ tools[t].operation.operationId # <<>>) =>
      /\ tools[t].name = Substring64(SanitizeName(tools[t].operation.operationId))
      /\ Len(tools[t].name) \in 1..MaxToolNameLength
      /\ \A c \in 1..Len(tools[t].name) : tools[t].name[c] \in NameChars

\* C8: once the request is sent, for every validated argument x whose name
\* is braced in the path template, the request path holds no literal {x}
\* and holds the percent-encoded string form of the value.
C8_PathParameterSubstituted ==
  \A i \in Slots :
    inv[i].fetches = 1 =>
      \A k \in PathKeys(ToolOf(i), inv[i].validatedParams) :
        /\ ~Includes(inv[i].finalPath, Braced(k))
        /\ Includes(inv[i].finalPath,
                    encodeURIComponent(String(inv[i].validatedParams[k])))

\* C9: the body of a request of an operation that declares a request body is
\* the serialisation of the validated arguments without those whose name is
\* braced in the path template (ClientNumber renamed to clientNumber).
C9_BodyOmitsPathArguments ==
  \A i \in Slots :
    (inv[i].fetches = 1 /\ inv[i].hasBody) =>
      LET validated == inv[i].validatedParams
          residual == [k \in DOMAIN validated \ PathKeys(ToolOf(i), validated) |-> validated[k]]
      IN inv[i].body = JSONstringify(BodyKeyOrder(ToolOf(i).shape.keys, residual),
                                     bodyParams(residual))

\* C10: once the pre-processing has run, processedParams has the keys of
\* params, every sentinel is replaced by a live value (a UUID, an
\* offset-qualified ISO-8601 instant), every other value is unchanged; and
\* what z.object(...).parse was given is processedParams, never params.
C10_SubstitutionBeforeValidation ==
  \A i \in Slots :
    /\ inv[i].pc \in {"Free", "Idle", "PlaceholderSubstituted"} => inv[i].parsed = <<>>
    /\ inv[i].pc \notin {"Free", "Idle"} =>
         /\ DOMAIN inv[i].processedParams = DOMAIN inv[i].params
         /\ \A k \in DOMAIN inv[i].params :
              LET given == inv[i].params[k]
                  live == inv[i].processedParams[k]
              IN /\ IsGuidSentinel(given) => live.t = "string" /\ IsUuid(live.s)
                 /\ IsDatetimeSentinel(given) => live.t = "string" /\ IsOffsetDateTime(live.s)
                 /\ ~IsGuidSentinel(given) /\ ~IsDatetimeSentinel(given) => live = given
         /\ inv[i].pc # "PlaceholderSubstituted" =>
              /\ inv[i].parsed = inv[i].processedParams
              /\ \A k \in DOMAIN inv[i].parsed :
                   ~IsGuidSentinel(inv[i].parsed[k]) /\ ~IsDatetimeSentinel(inv[i].parsed[k])

\* A validated invocation whose arguments held both sentinels and a number
C10_Witness ==
  \E i \in Slots :
    /\ inv[i].pc = "Validated"
    /\ \E k \in DOMAIN inv[i].params : IsGuidSentinel(inv[i].params[k])
    /\ \E k \in DOMAIN inv[i].params : IsDatetimeSentinel(inv[i].params[k])
    /\ \E k \in DOMAIN inv[i].params : inv[i].params[k] = NumVal(7, 1)

\* C15: for a tool whose operation declares no "200" response, no request is
\* ever sent, and every invocation whose arguments passed validation is
\* Failed at the building of the request, with the text
\* "Error in <toolName>: " followed by the TypeError's message.
C15_No200ResponseAlwaysFails ==
  \A i \in Slots :
    (inv[i].pc # "Free" /\ ToolOf(i).operation.resp200 = "absent") =>
      /\ inv[i].fetches = 0
      /\ inv[i].pc \in {"Idle", "PlaceholderSubstituted", "Validated", "Failed"}
      /\ inv[i].pc = "Failed" =>
           /\ StartsWith(inv[i].text, ErrorPrefix(ToolOf(i).name))
           /\ ZodIssues(ToolOf(i).shape, inv[i].processedParams) = {} =>
                /\ inv[i].failedAt = "Validated"
                /\ inv[i].text = ErrorPrefix(ToolOf(i).name) \o TypeErrorMessage

\* The tool "create" (responses: "201" only), called with valid arguments,
\* has failed while the request was built
C15_Witness ==
  \E i \in Slots :
    /\ inv[i].pc = "Failed" /\ inv[i].failedAt = "Validated"
    /\ ToolOf(i).name = <<"c","r","e","a","t","e">>
    /\ ToolOf(i).operation.resp200 = "absent"
    /\ inv[i].validatedParams = <<>> /\ inv[i].params # <<>>
    /\ inv[i].fetches = 0

\* C12: every request sent carries Content-Type application/json; it
\* carries X-Org-Id exactly when the operation declares a required header
\* parameter of that name or the final path contains "/hawksoft/"; and the
\* value of X-Org-Id is the configured organizationId, whatever the caller
\* supplied.
C12_RequestHeaders ==
  \A i \in Slots :
    inv[i].fetches = 1 =>
      /\ CONTENT_TYPE \in DOMAIN inv[i].headers
      /\ inv[i].headers[CONTENT_TYPE] = "application/json"
      /\ X_ORG_ID \in DOMAIN inv[i].headers
           <=> \/ \E j \in 1..Len(ToolOf(i).operation.parameters) :
                    LET param == ToolOf(i).operation.parameters[j] IN
                    param.in = "header" /\ param.required /\ param.name = X_ORG_ID
               \/ Includes(inv[i].finalPath, HAWKSOFT)
      /\ X_ORG_ID \in DOMAIN inv[i].headers =>
           inv[i].headers[X_ORG_ID] = "8232f2d1-91f2-4d17-9a7e-756dd5dc7544"

\* A request to /integrations/hawksoft/c, whose operation requires no header
\* parameter and whose caller supplied an X-Org-Id argument of its own,
\* carries the configured identifier
C12_Witness ==
  \E i \in Slots :
    /\ inv[i].fetches = 1
    /\ inv[i].finalPath = INTEGRATIONS \o PathHawksoft
    /\ ~RequiresOrgHeader(ToolOf(i).operation.parameters)
    /\ X_ORG_ID \in DOMAIN inv[i].params
    /\ inv[i].params[X_ORG_ID] = StrVal(<<"4","2">>)
    /\ X_ORG_ID \in DOMAIN inv[i].headers
    /\ inv[i].headers[X_ORG_ID] = organizationId

\* The rendering of one array element: objects (and arrays, and null, all
\* of typeof "object") pretty-printed, primitives as they are
ElementText(e) ==
  IF e.t \in {"object", "array", "null"} THEN Pretty(e, 0) ELSE ScalarString(e)

\* The elements' renderings with a blank line between two of them
RECURSIVE ElementsJoined(_)
ElementsJoined(items) ==
  IF items = <<>> THEN <<>>
  ELSE IF Len(items) = 1 THEN ElementText(Head(items))
  ELSE ElementText(Head(items)) \o <<"\n", "\n">> \o ElementsJoined(Tail(items))

\* C14: the text returned for a 2xx response is, when the body parses as
\* JSON: for an array its elements joined by blank lines (objects
\* pretty-printed, primitives as they are), for an object the pretty-printed
\* object, for a scalar the scalar as a string; and the body itself when it
\* does not parse.
C14_ResponseNormalized ==
  \A i \in Slots :
    inv[i].pc = "Done" =>
      /\ inv[i].status \in 200..299
      /\ LET r == JSONparse(inv[i].resBody) IN
         inv[i].text =
           CASE ~r.ok -> inv[i].resBody
             [] r.ok /\ r.v.t = "array" -> ElementsJoined(r.v.items)
             [] r.ok /\ r.v.t = "object" -> Pretty(r.v, 0)
             [] OTHER -> ScalarString(r.v)

\* The body [{"a":1},"a"] of a 2xx response has been returned as the
\* pretty-printed object, a blank line, and a
C14_Witness ==
  \E i \in Slots :
    /\ inv[i].pc = "Done" /\ inv[i].status \in 200..299
    /\ inv[i].resBody = <<"[","{","\"","a","\"",":","1","}",",","\"","a","\"","]">>
    /\ inv[i].text = <<"{","\n"," "," ","\"","a","\"",":"," ","1","\n","}","\n","\n","a">>

\* A declared type that neither getZodSchemaForParameter nor resolveSchemaRef
\* knows, or no type at all
Untyped(type) == type \notin {"string", "integer", "number", "boolean"}

\* The fields of a tool with such a type and no enum: path parameters, and
\* properties of the body schema that carry neither enum nor $ref
UntypedFields(tool) ==
  LET parameters == tool.operation.parameters
      seg == LastSegment(tool.operation.bodyRef)
      properties == IF tool.operation.requestBody = "ref" /\ HasSchema(Schemas, seg)
                    THEN Schemas[seg.name].properties ELSE <<>>
  IN {parameters[j].name : j \in
        {j \in 1..Len(parameters) :
           parameters[j].in = "path" /\ Untyped(parameters[j].type)}}
     \cup
     {properties[j].name : j \in
        {j \in 1..Len(properties) :
           Untyped(properties[j].type) /\ ~properties[j].hasEnum /\ properties[j].ref = <<>>}}

\* C13: an argument of any type supplied for a field whose declared type is
\* unrecognized or absent (and which has no enum) passes validation: once
\* the validator has run, it has raised no issue on such a field.
C13_UntypedFieldAcceptsAnyValue ==
  \A i \in Slots :
    inv[i].pc \notin {"Free", "Idle", "PlaceholderSubstituted"} =>
      \A k \in UntypedFields(ToolOf(i)) \cap DOMAIN inv[i].processedParams :
        k \notin ZodIssues(ToolOf(i).shape, inv[i].processedParams)

\* The request an invocation builds when it runs alone: a function of its
\* tool and its own arguments
OwnRequest(i) ==
  LET tool == ToolOf(i)
      validated == ZodOutput(tool.shape, inv[i].processedParams)
      path == finalPath(tool, validated)
  IN /\ inv[i].validatedParams = validated
     /\ inv[i].finalPath = path
     /\ inv[i].method = toUpperCase(tool.method)
     /\ inv[i].headers = headers(tool.operation, path)
     /\ inv[i].body = IF tool.operation.requestBody # "none"
                      THEN JSONstringify(BodyKeyOrder(tool.shape.keys, validated),
                                         bodyParams(validated))
                      ELSE <<>>

\* The result an invocation returns when it runs alone: a function of its
\* tool, its own arguments and its own response
OwnResult(i) ==
  LET name == ToolOf(i).name IN
  /\ inv[i].pc = "Done" => inv[i].text = NormalizeBody(inv[i].resBody)
  /\ inv[i].pc = "Failed" =>
       inv[i].text =
         ErrorPrefix(name) \o
           (CASE inv[i].failedAt = "PlaceholderSubstituted" ->
                   ZodMessage(ZodIssues(ToolOf(i).shape, inv[i].processedParams))
              [] inv[i].failedAt = "Validated" -> TypeErrorMessage
              [] inv[i].failedAt = "RequestBuilt" -> NetworkErrorMessage
              [] inv[i].failedAt = "Invoked" /\ ~inv[i].bodyRead -> NetworkErrorMessage
              [] inv[i].failedAt = "Invoked" /\ inv[i].bodyRead ->
                   IF inv[i].resBody # <<>> THEN inv[i].resBody
                   ELSE HTTP_ERROR \o IntToString(inv[i].status))

\* A step of one invocation leaves the registry (names, shapes, bound
\* operations) and every other invocation as they were
HandlerStepFrame ==
  inv' # inv =>
    /\ tools' = tools /\ doc' = doc
    /\ \A i, j \in Slots : (i # j /\ inv'[i] # inv[i]) => inv'[j] = inv[j]

\* C11: with invocations interleaved at every step, no step of an invocation
\* changes the registry, a tool's shape or operation, or another invocation;
\* and the request each invocation has built and the result it has returned
\* are those its own arguments and its own response give when it runs alone.
C11_InvocationsIndependent ==
  /\ [][HandlerStepFrame]_vars
  /\ [](\A i \in Slots :
          /\ inv[i].pc \in {"RequestBuilt", "Invoked", "Normalized", "Done"} => OwnRequest(i)
          /\ OwnResult(i))

\* Two invocations of "blob" overlap after their requests: one has returned
\* its text while the other, with another response, is still to return
C11_Witness ==
  \E i, j \in Slots :
    /\ i # j
    /\ inv[i].tool = inv[j].tool
    /\ inv[i].pc = "Done" /\ inv[i].fetches = 1
    /\ inv[j].pc = "Normalized" /\ inv[j].fetches = 1
    /\ inv[i].text # inv[j].responseContent

====
